---- MODULE Spec2Model ----
(***************************************************************************)
(* Lead accountability engine (src/server/services/monitor.ts).            *)
(*                                                                         *)
(* Three periodic tasks share the assignment store and the in-memory       *)
(* seenLeads map: checkForNewLeads (static pond), checkSourceLeads         *)
(* (monitored sources) and checkExpiredTimersAndTag (resolution).          *)
(* Each task is async: every `await` is a point where the other tasks,     *)
(* another run of the same task (setInterval does not wait for the         *)
(* previous run), the clock and the CRM may take steps.  One action of     *)
(* this model is the execution of one awaited store / CRM operation        *)
(* together with the JavaScript continuation that follows it up to the     *)
(* next await.                                                             *)
(*                                                                         *)
(* Time is counted in minutes.                                             *)
(***************************************************************************)
EXTENDS Integers, Sequences, FiniteSets, Bags, TLC

VARIABLES
    clock,        \* wall clock (new Date()), minutes
    assignedTo,   \* CRM: lead id -> current assignee id (NoAgent if none, Null if no such lead)
    callLog,      \* CRM: lead id -> calls of the lead, in the order the API lists them
    tags,         \* CRM: lead id -> tags of the lead, as the array the API returns
    rows,         \* table lead_assignments; the serial id of a row is its index
    sources,      \* table monitored_sources, by source name (NoSource if absent)
    seenLeads,    \* monitor.ts seenLeads: lead id -> last seen agent id (NoAgent = no entry)
    det,          \* the runs of checkForNewLeads / checkSourceLeads in flight
    res,          \* the runs of checkExpiredTimersAndTag in flight
    faults,       \* number of transient store / API errors injected so far
    callsDown,    \* leads whose call-history request currently answers non-2xx
    tagAttempts,  \* per row id: calls of addTagToPerson made for the row
    notifyAttempts, \* per row id: calls of sendTimerExpiredNotification made for the row
    statusWrites, \* per row id: store updates that wrote the row's status
    proc,         \* the server process: running or not, times restarted, mail configuration
    outbox        \* the notification mails handed to the mail transport and accepted

vars == <<clock, assignedTo, callLog, tags, rows, sources, seenLeads, det, res,
          faults, callsDown, tagAttempts, notifyAttempts, statusWrites, proc, outbox>>

(***************************************************************************)
(* Program constants                                                       *)
(***************************************************************************)
TIMER_MINUTES == 30
REASSIGNED_TAG == "Reassigned"

(***************************************************************************)
(* Bounds of the model                                                     *)
(***************************************************************************)
MaxLeads == 2      \* lead ids 1..MaxLeads
MaxAgents == 2     \* agent ids 1..MaxAgents
MaxRows == 2       \* rows ever inserted
MaxTicks == 2      \* clock advances
MaxCalls == 2      \* calls logged in the CRM, all leads together
MaxFaults == 1     \* transient errors injected
MaxRestarts == 1   \* process restarts

Leads == 1..MaxLeads
Agents == 1..MaxAgents
NoAgent == 0
Null == -1
RowIds == 1..MaxRows

\* The clock advances by a whole default timer at a time: a row of the pond
\* inserted at t has its deadline at the next tick and is past it at the
\* tick after.
TickStep == TIMER_MINUTES

MaxRuns == 2       \* task runs (of any of the three tasks) in flight at once

SourceNames == {"Zillow", "Realtor"}
NoSource == [timerMinutes |-> Null, enabled |-> Null]
\* timerMinutes values an administrator posts
TimerInputs == {0, 1}

\* The process after `app.listen`: running, with the mail transport of
\* email.ts configured (RESEND_API_KEY valid) and NOTIFICATION_EMAILS not empty.
StartedProcess == [alive |-> TRUE, restarts |-> 0, resend |-> TRUE, recipients |-> TRUE]

(***************************************************************************)
(* Pure helpers                                                            *)
(***************************************************************************)
\* All orders in which a finite set can be listed (a query without ORDER BY,
\* an API listing).
Orderings(S) ==
    {s \in [1..Cardinality(S) -> S] : \A i, j \in 1..Cardinality(S) : s[i] = s[j] => i = j}

RECURSIVE SumSeq(_)
SumSeq(s) == IF s = <<>> THEN 0 ELSE Head(s) + SumSeq(Tail(s))

\* One bag with run `old` taken out and run `new` put in; a finished run
\* (pc = "idle") leaves the bag.
Moved(bag, old, new) ==
    LET rest == bag (-) SetToBag({old})
    IN  IF new.pc = "idle" THEN rest ELSE rest (+) SetToBag({new})

\* setInterval starts a run whether or not earlier runs have finished; the
\* model bounds how many are in flight.
RunsInFlight == BagCardinality(det) + BagCardinality(res)

(***************************************************************************)
(* Store: lead_assignments                                                 *)
(***************************************************************************)
\* schema.leadAssignments; via / cfgMinutes are history fields: the task
\* that inserted the row and the timerMinutes it read from its source.
NewAssignment(lead, now, expiresAt, via, cfgMinutes) ==
    [fubLeadId |-> lead.id, agentId |-> lead.assignedTo,
     assignedAt |-> now, timerExpiresAt |-> expiresAt, status |-> "pending",
     callDetectedAt |-> Null, notifiedAt |-> Null, reassignedAt |-> Null,
     via |-> via, cfgMinutes |-> cfgMinutes]

\* A findFirst that drops the status filter: any row of the lead counts.
ExistingPending_AnyStatus(leadId) ==
    \E i \in 1..Len(rows) : rows[i].fubLeadId = leadId

\* findFirst({fubLeadId = leadId, status = 'pending'}) returned a row
ExistingPending(leadId) ==
    \E i \in 1..Len(rows) : rows[i].fubLeadId = leadId /\ rows[i].status = "pending"

\* new Date(now.getTime() + minutes * 60 * 1000)
ExpiresAt(now, minutes) == now + minutes

\* The timer without the fallback to TIMER_MINUTES.
TimerMinutesOf_NoDefault(source) == source.timerMinutes

\* source.timerMinutes || TIMER_MINUTES
TimerMinutesOf(source) ==
    IF source.timerMinutes # 0 THEN source.timerMinutes ELSE TIMER_MINUTES

(***************************************************************************)
(* Detection: checkForNewLeads and checkSourceLeads                        *)
(***************************************************************************)
\* A run of a detection task: where it is, what it holds, and how many rows
\* it has written to the store so far.
IdleDet == [pc |-> "idle", kind |-> "none", leads |-> <<>>, srcs |-> <<>>, now |-> Null,
            written |-> 0]

\* What the CRM may list for a pond or a source: the people it holds, in
\* any order, each with its current assignee or with none (assignedTo[l] is
\* Null for a lead id the CRM does not hold).
LeadListings ==
    LET listed == {l \in Leads : assignedTo[l] # Null}
    IN  {[i \in 1..Cardinality(listed) |-> [id |-> o[i], assignedTo |-> assignedTo[o[i]]]] :
           o \in Orderings(listed)}

\* The loop without `if (!lead.assignedTo) continue`: a lead without
\* assignee is visited like any other lead.
RECURSIVE SkipSeen_KeepUnassigned(_, _)
SkipSeen_KeepUnassigned(ls, seen) ==
    IF ls = <<>> THEN <<>>
    ELSE IF Head(ls).assignedTo # NoAgent /\ seen[Head(ls).id] = Head(ls).assignedTo
         THEN SkipSeen_KeepUnassigned(Tail(ls), seen)
         ELSE ls

\* The leads still to visit, from the first one the loop does not skip:
\* `if (!lead.assignedTo) continue` and `if (previousAgent !== lead.assignedTo.id)`.
RECURSIVE SkipSeen(_, _)
SkipSeen(ls, seen) ==
    IF ls = <<>> THEN <<>>
    ELSE IF Head(ls).assignedTo = NoAgent \/ seen[Head(ls).id] = Head(ls).assignedTo
         THEN SkipSeen(Tail(ls), seen)
         ELSE ls

\* The synchronous continuation of a detection run up to its next await:
\* the findFirst of the next new assignment, else the next source's
\* getLeadsBySource, else the end of the run.
ContinueDet(run, seen) ==
    LET ls == SkipSeen(run.leads, seen)
    IN  IF ls # <<>> THEN [run EXCEPT !.leads = ls, !.pc = "findFirst", !.now = Null]
        ELSE IF run.kind = "source" /\ Len(run.srcs) > 1
             THEN [run EXCEPT !.leads = <<>>, !.srcs = Tail(run.srcs),
                              !.pc = "getLeadsBySource", !.now = Null]
             ELSE IdleDet

\* seenLeads.set(lead.id, lead.assignedTo.id)
SeenSet(lead) == [seenLeads EXCEPT ![lead.id] = lead.assignedTo]

\* setInterval(checkForNewLeads, 30 * 1000) / the immediate run: a run starts
\* and awaits getPondLeads(POND_ID).
StartCheckForNewLeads ==
    /\ proc.alive
    /\ RunsInFlight < MaxRuns
    /\ det' = det (+) SetToBag({[IdleDet EXCEPT !.pc = "getPondLeads", !.kind = "pond"]})
    /\ UNCHANGED <<proc, outbox, clock, assignedTo, callLog, tags, rows, sources, seenLeads, res,
                   faults, callsDown, tagAttempts, notifyAttempts, statusWrites>>

\* getPondLeads answered; the loop runs to the first new assignment.
GetPondLeads(run) ==
    /\ run.pc = "getPondLeads"
    /\ \E ls \in LeadListings :
          det' = Moved(det, run, ContinueDet([run EXCEPT !.leads = ls], seenLeads))
    /\ UNCHANGED <<proc, outbox, clock, assignedTo, callLog, tags, rows, sources, seenLeads, res,
                   faults, callsDown, tagAttempts, notifyAttempts, statusWrites>>

\* getPondLeads threw (fubFetch: non-2xx): caught at the end of checkForNewLeads.
GetPondLeadsError(run) ==
    /\ run.pc = "getPondLeads"
    /\ faults < MaxFaults
    /\ faults' = faults + 1
    /\ det' = Moved(det, run, IdleDet)
    /\ UNCHANGED <<proc, outbox, clock, assignedTo, callLog, tags, rows, sources, seenLeads, res,
                   callsDown, tagAttempts, notifyAttempts, statusWrites>>

\* setInterval(checkSourceLeads, 30 * 1000) / the immediate run: a run starts
\* and awaits monitoredSources.findMany({enabled = 1}).
StartCheckSourceLeads ==
    /\ proc.alive
    /\ RunsInFlight < MaxRuns
    /\ det' = det (+) SetToBag({[IdleDet EXCEPT !.pc = "findSources", !.kind = "source"]})
    /\ UNCHANGED <<proc, outbox, clock, assignedTo, callLog, tags, rows, sources, seenLeads, res,
                   faults, callsDown, tagAttempts, notifyAttempts, statusWrites>>

\* The registry query without its filter on `enabled`.
EnabledSources_All == {n \in SourceNames : sources[n] # NoSource}

\* The enabled sources, as the registry query returns them.
EnabledSources == {n \in SourceNames : sources[n] # NoSource /\ sources[n].enabled = 1}

\* findMany answered: return if there is no enabled source, else ask the CRM
\* for the first source's leads.
FindMonitoredSources(run) ==
    /\ run.pc = "findSources"
    /\ \E o \in Orderings(EnabledSources) :
          LET srcs == [i \in 1..Len(o) |->
                         [sourceName |-> o[i], timerMinutes |-> sources[o[i]].timerMinutes]]
          IN  det' = Moved(det, run,
                           IF srcs = <<>> THEN IdleDet
                           ELSE [run EXCEPT !.srcs = srcs, !.pc = "getLeadsBySource"])
    /\ UNCHANGED <<proc, outbox, clock, assignedTo, callLog, tags, rows, sources, seenLeads, res,
                   faults, callsDown, tagAttempts, notifyAttempts, statusWrites>>

\* getLeadsBySource answered for the current source.
GetLeadsBySource(run) ==
    /\ run.pc = "getLeadsBySource"
    /\ \E ls \in LeadListings :
          det' = Moved(det, run, ContinueDet([run EXCEPT !.leads = ls], seenLeads))
    /\ UNCHANGED <<proc, outbox, clock, assignedTo, callLog, tags, rows, sources, seenLeads, res,
                   faults, callsDown, tagAttempts, notifyAttempts, statusWrites>>

\* fubFetch threw inside getLeadsBySource: it logs and returns [], and the
\* run goes on with the next source.
GetLeadsBySourceError(run) ==
    /\ run.pc = "getLeadsBySource"
    /\ faults < MaxFaults
    /\ faults' = faults + 1
    /\ det' = Moved(det, run, ContinueDet([run EXCEPT !.leads = <<>>], seenLeads))
    /\ UNCHANGED <<proc, outbox, clock, assignedTo, callLog, tags, rows, sources, seenLeads, res,
                   callsDown, tagAttempts, notifyAttempts, statusWrites>>

\* findFirst answered, with seenLeads.set moved inside `if (!existing)`: a
\* lead with a pending row is left as it was in seenLeads.
FindFirstPending_SetOnInsert(run) ==
    /\ run.pc = "findFirst"
    /\ LET lead == Head(run.leads)
       IN  IF ExistingPending(lead.id)
           THEN det' = Moved(det, run,
                             ContinueDet([run EXCEPT !.leads = Tail(run.leads)],
                                         SeenSet(lead)))
           ELSE det' = Moved(det, run, [run EXCEPT !.pc = "insert", !.now = clock])
    /\ UNCHANGED <<proc, outbox, clock, assignedTo, callLog, tags, rows, sources, seenLeads, res,
                   faults, callsDown, tagAttempts, notifyAttempts, statusWrites>>

\* findFirst answered for the lead at hand (both detection tasks): with a
\* pending row the lead is only recorded in seenLeads, without one the run
\* takes `now` and awaits the insert.
FindFirstPending(run) ==
    /\ run.pc = "findFirst"
    /\ LET lead == Head(run.leads)
       IN  IF ExistingPending(lead.id)
           THEN /\ seenLeads' = SeenSet(lead)
                /\ det' = Moved(det, run,
                                ContinueDet([run EXCEPT !.leads = Tail(run.leads)], seenLeads'))
           ELSE /\ det' = Moved(det, run, [run EXCEPT !.pc = "insert", !.now = clock])
                /\ UNCHANGED seenLeads
    /\ UNCHANGED <<proc, outbox, clock, assignedTo, callLog, tags, rows, sources, res,
                   faults, callsDown, tagAttempts, notifyAttempts, statusWrites>>

\* The row a run inserts: checkForNewLeads uses TIMER_MINUTES, checkSourceLeads
\* the timerMinutes of the source it is visiting.
InsertedRow(run) ==
    IF run.kind = "pond"
    THEN NewAssignment(Head(run.leads), run.now, ExpiresAt(run.now, TIMER_MINUTES),
                       "pond", Null)
    ELSE NewAssignment(Head(run.leads), run.now,
                       ExpiresAt(run.now, TimerMinutesOf(Head(run.srcs))),
                       "source", Head(run.srcs).timerMinutes)

\* An upsert in place of the insert: an earlier row of the lead is replaced.
InsertAssignment_Upsert(run) ==
    /\ run.pc = "insert"
    /\ Len(rows) < MaxRows
    /\ LET earlier == {i \in 1..Len(rows) : rows[i].fubLeadId = Head(run.leads).id}
       IN  rows' = IF earlier = {} THEN Append(rows, InsertedRow(run))
                   ELSE [rows EXCEPT ![CHOOSE i \in earlier : TRUE] = InsertedRow(run)]
    /\ seenLeads' = SeenSet(Head(run.leads))
    /\ det' = Moved(det, run, ContinueDet([run EXCEPT !.leads = Tail(run.leads), !.written = @ + 1],
                                          seenLeads'))
    /\ UNCHANGED <<proc, outbox, clock, assignedTo, callLog, tags, sources, res,
                   faults, callsDown, tagAttempts, notifyAttempts, statusWrites>>

\* The insert was executed; then seenLeads.set and the loop goes on.
InsertAssignment(run) ==
    /\ run.pc = "insert"
    /\ Len(rows) < MaxRows
    /\ rows' = Append(rows, InsertedRow(run))
    /\ seenLeads' = SeenSet(Head(run.leads))
    /\ det' = Moved(det, run, ContinueDet([run EXCEPT !.leads = Tail(run.leads), !.written = @ + 1],
                                          seenLeads'))
    /\ UNCHANGED <<proc, outbox, clock, assignedTo, callLog, tags, sources, res,
                   faults, callsDown, tagAttempts, notifyAttempts, statusWrites>>

\* A store error after which the run still records the lead in seenLeads,
\* as with seenLeads.set before the store operations of the lead.
DetectionStoreError_SeenSet(run) ==
    /\ run.pc \in {"findSources", "findFirst", "insert"}
    /\ faults < MaxFaults
    /\ faults' = faults + 1
    /\ seenLeads' = IF run.pc = "findSources" THEN seenLeads ELSE SeenSet(Head(run.leads))
    /\ det' = Moved(det, run, IdleDet)
    /\ UNCHANGED <<proc, outbox, clock, assignedTo, callLog, tags, rows, sources, res,
                   callsDown, tagAttempts, notifyAttempts, statusWrites>>

\* A store operation of a detection run threw: caught at the end of the
\* task, the run ends.
DetectionStoreError(run) ==
    /\ run.pc \in {"findSources", "findFirst", "insert"}
    /\ faults < MaxFaults
    /\ faults' = faults + 1
    /\ det' = Moved(det, run, IdleDet)
    /\ UNCHANGED <<proc, outbox, clock, assignedTo, callLog, tags, rows, sources, seenLeads, res,
                   callsDown, tagAttempts, notifyAttempts, statusWrites>>

(***************************************************************************)
(* Resolution: checkExpiredTimersAndTag                                    *)
(***************************************************************************)
\* A pass of the resolution task: where it is, what it holds, and how many
\* rows it has written to the store so far.
IdleRes == [pc |-> "idle", now |-> Null, expired |-> <<>>, callTs |-> Null, currentTags |-> <<>>,
            written |-> 0]

\* setInterval(checkExpiredTimersAndTag, 60 * 1000) / the immediate run: a
\* pass starts, takes `now` and awaits the query for expired pending rows.
StartCheckExpiredTimersAndTag ==
    /\ proc.alive
    /\ RunsInFlight < MaxRuns
    /\ res' = res (+) SetToBag({[IdleRes EXCEPT !.pc = "findExpired", !.now = clock]})
    /\ UNCHANGED <<proc, outbox, clock, assignedTo, callLog, tags, rows, sources, seenLeads, det,
                   faults, callsDown, tagAttempts, notifyAttempts, statusWrites>>

\* The query with lte in place of lt: a row is taken at its deadline.
ExpiredPending_AtDeadline(now) ==
    {i \in 1..Len(rows) : rows[i].status = "pending" /\ rows[i].timerExpiresAt <= now}

\* and(eq(status, 'pending'), lt(timerExpiresAt, now))
ExpiredPending(now) ==
    {i \in 1..Len(rows) : rows[i].status = "pending" /\ rows[i].timerExpiresAt < now}

\* The loop of a pass moves to its next row: it awaits getPersonCalls for
\* it, or the pass ends.
ContinueRes(run, rest) ==
    IF rest = <<>> THEN IdleRes
    ELSE [run EXCEPT !.expired = rest, !.pc = "getPersonCalls",
                     !.callTs = Null, !.currentTags = <<>>]

\* findMany answered with the expired pending rows, in the store's order.
FindExpired(run) ==
    /\ run.pc = "findExpired"
    /\ \E o \in Orderings(ExpiredPending(run.now)) :
          LET found == [i \in 1..Len(o) |->
                          [id |-> o[i], fubLeadId |-> rows[o[i]].fubLeadId,
                           agentId |-> rows[o[i]].agentId,
                           assignedAt |-> rows[o[i]].assignedAt]]
          IN  res' = Moved(res, run, ContinueRes(run, found))
    /\ UNCHANGED <<proc, outbox, clock, assignedTo, callLog, tags, rows, sources, seenLeads, det,
                   faults, callsDown, tagAttempts, notifyAttempts, statusWrites>>

\* GET /calls?personId=..&created=<since>: the calls of the lead created at
\* or after `since`, in the order the CRM lists them.
PersonCalls(personId, since) ==
    SelectSeq(callLog[personId], LAMBDA created : created >= since)

\* getPersonCalls answered: with a call the pass awaits the update to
\* `called` with calls[0].created, without one it calls addTagToPerson,
\* which first reads the lead's tags.
GetPersonCalls(run) ==
    /\ run.pc = "getPersonCalls"
    /\ LET assignment == Head(run.expired)
           calls == PersonCalls(assignment.fubLeadId, assignment.assignedAt)
       IN  /\ assignment.fubLeadId \notin callsDown
           /\ IF Len(calls) > 0
              THEN /\ res' = Moved(res, run, [run EXCEPT !.pc = "updateCalled",
                                                         !.callTs = calls[1]])
                   /\ UNCHANGED tagAttempts
              ELSE /\ res' = Moved(res, run, [run EXCEPT !.pc = "addTagGet"])
                   /\ tagAttempts' = [tagAttempts EXCEPT ![assignment.id] = @ + 1]
    /\ UNCHANGED <<proc, outbox, clock, assignedTo, callLog, tags, rows, sources, seenLeads, det,
                   faults, callsDown, notifyAttempts, statusWrites>>

\* getPersonCalls threw and the task has no catch: the promise of the task
\* is rejected with nobody handling it, which ends the process and with it
\* the three intervals.
GetPersonCallsError_Unhandled(run) ==
    /\ run.pc = "getPersonCalls"
    /\ faults < MaxFaults
    /\ faults' = faults + 1
    /\ proc' = [proc EXCEPT !.alive = FALSE]
    /\ det' = EmptyBag
    /\ res' = EmptyBag
    /\ UNCHANGED <<outbox, clock, assignedTo, callLog, tags, rows, sources, seenLeads,
                   callsDown, tagAttempts, notifyAttempts, statusWrites>>

\* getPersonCalls catching its own error and returning []: the pass takes
\* the row for one without call and goes on to the tag.
GetPersonCallsError_AsNoCalls(run) ==
    /\ run.pc = "getPersonCalls"
    /\ faults < MaxFaults
    /\ faults' = faults + 1
    /\ res' = Moved(res, run, [run EXCEPT !.pc = "addTagGet"])
    /\ tagAttempts' = [tagAttempts EXCEPT ![Head(run.expired).id] = @ + 1]
    /\ UNCHANGED <<proc, outbox, clock, assignedTo, callLog, tags, rows, sources, seenLeads, det,
                   callsDown, notifyAttempts, statusWrites>>

\* getPersonCalls threw (fubFetch: non-2xx): the catch is around the whole
\* loop, so the pass ends with the remaining rows unvisited.
GetPersonCallsError(run) ==
    /\ run.pc = "getPersonCalls"
    /\ faults < MaxFaults
    /\ faults' = faults + 1
    /\ res' = Moved(res, run, IdleRes)
    /\ UNCHANGED <<proc, outbox, clock, assignedTo, callLog, tags, rows, sources, seenLeads, det,
                   callsDown, tagAttempts, notifyAttempts, statusWrites>>

\* getPersonCalls threw because the CRM keeps answering non-2xx for this
\* lead (a person deleted or merged in the CRM, a revoked key): the pass
\* ends as above, at every pass for as long as the outage lasts.
GetPersonCallsOutage(run) ==
    /\ run.pc = "getPersonCalls"
    /\ Head(run.expired).fubLeadId \in callsDown
    /\ res' = Moved(res, run, IdleRes)
    /\ UNCHANGED <<proc, outbox, clock, assignedTo, callLog, tags, rows, sources, seenLeads, det,
                   faults, callsDown, tagAttempts, notifyAttempts, statusWrites>>

\* An update to `called` that also stamps the notification time.
SetCalled_AndNotified(row, callTs) ==
    [row EXCEPT !.status = "called", !.callDetectedAt = callTs, !.notifiedAt = callTs]

\* db.update(...).set({status: 'called', callDetectedAt}).where(eq(id, assignment.id))
SetCalled(row, callTs) ==
    [row EXCEPT !.status = "called", !.callDetectedAt = callTs]

\* An update that stamps the time of the write, not the `now` of the pass.
SetReassigned_WriteTime(row, now) ==
    [row EXCEPT !.status = "reassigned", !.notifiedAt = clock, !.reassignedAt = clock]

\* db.update(...).set({status: 'reassigned', notifiedAt: now, reassignedAt: now})
\*   .where(eq(id, assignment.id))
SetReassigned(row, now) ==
    [row EXCEPT !.status = "reassigned", !.notifiedAt = now, !.reassignedAt = now]

\* The update to `called` was executed; the loop goes on.
UpdateCalled(run) ==
    /\ run.pc = "updateCalled"
    /\ LET id == Head(run.expired).id
       IN  /\ rows' = [rows EXCEPT ![id] = SetCalled(@, run.callTs)]
           /\ statusWrites' = [statusWrites EXCEPT ![id] = @ + 1]
    /\ res' = Moved(res, run, ContinueRes([run EXCEPT !.written = @ + 1], Tail(run.expired)))
    /\ UNCHANGED <<proc, outbox, clock, assignedTo, callLog, tags, sources, seenLeads, det,
                   faults, callsDown, tagAttempts, notifyAttempts>>

\* The pass going from the tag straight to the update, without the call of
\* sendTimerExpiredNotification.
AfterTag_SkipNotify(run) == [run EXCEPT !.pc = "updateReassigned", !.currentTags = <<>>]

\* addTagToPerson returned or threw (caught and logged): the pass calls
\* sendTimerExpiredNotification.
AfterTag(run) == [run EXCEPT !.pc = "notify", !.currentTags = <<>>]

\* currentTags.includes(tag)
Includes(array, x) == \E i \in 1..Len(array) : array[i] = x

\* addTagToPerson without `if (!currentTags.includes(tag))`: the PUT is made
\* whatever the lead's tags are.
AddTagGet_AlwaysPut(run) ==
    /\ run.pc = "addTagGet"
    /\ res' = Moved(res, run, [run EXCEPT !.pc = "addTagPut",
                                          !.currentTags = tags[Head(run.expired).fubLeadId]])
    /\ UNCHANGED <<proc, outbox, clock, assignedTo, callLog, tags, rows, sources, seenLeads, det,
                   faults, callsDown, tagAttempts, notifyAttempts, statusWrites>>

\* addTagToPerson, GET /people/:id answered: the tag is already there, or
\* the PUT follows.
AddTagGet(run) ==
    /\ run.pc = "addTagGet"
    /\ LET assignment == Head(run.expired)
           currentTags == tags[assignment.fubLeadId]
       IN  IF Includes(currentTags, REASSIGNED_TAG)
           THEN /\ res' = Moved(res, run, AfterTag(run))
                /\ notifyAttempts' = [notifyAttempts EXCEPT ![assignment.id] = @ + 1]
           ELSE /\ res' = Moved(res, run, [run EXCEPT !.pc = "addTagPut",
                                                      !.currentTags = currentTags])
                /\ UNCHANGED notifyAttempts
    /\ UNCHANGED <<proc, outbox, clock, assignedTo, callLog, tags, rows, sources, seenLeads, det,
                   faults, callsDown, tagAttempts, statusWrites>>

\* addTagToPerson, PUT /people/:id {tags: [...currentTags, tag]} answered.
AddTagPut(run) ==
    /\ run.pc = "addTagPut"
    /\ LET assignment == Head(run.expired)
       IN  /\ tags' = [tags EXCEPT ![assignment.fubLeadId] =
                                       Append(run.currentTags, REASSIGNED_TAG)]
           /\ notifyAttempts' = [notifyAttempts EXCEPT ![assignment.id] = @ + 1]
    /\ res' = Moved(res, run, AfterTag(run))
    /\ UNCHANGED <<proc, outbox, clock, assignedTo, callLog, rows, sources, seenLeads, det,
                   faults, callsDown, tagAttempts, statusWrites>>

\* A request of addTagToPerson threw and nothing caught it before the catch
\* of the task: the pass ends.
AddTagError_Uncaught(run) ==
    /\ run.pc \in {"addTagGet", "addTagPut"}
    /\ faults < MaxFaults
    /\ faults' = faults + 1
    /\ res' = Moved(res, run, IdleRes)
    /\ UNCHANGED <<proc, outbox, clock, assignedTo, callLog, tags, rows, sources, seenLeads, det,
                   callsDown, tagAttempts, notifyAttempts, statusWrites>>

\* A request of addTagToPerson threw: caught by the try around it.
AddTagError(run) ==
    /\ run.pc \in {"addTagGet", "addTagPut"}
    /\ faults < MaxFaults
    /\ faults' = faults + 1
    /\ notifyAttempts' = [notifyAttempts EXCEPT ![Head(run.expired).id] = @ + 1]
    /\ res' = Moved(res, run, AfterTag(run))
    /\ UNCHANGED <<proc, outbox, clock, assignedTo, callLog, tags, rows, sources, seenLeads, det,
                   callsDown, tagAttempts, statusWrites>>

\* The parameters with the agent read from the CRM at the time of the mail.
Notification_Refetched(assignment) ==
    [lead |-> assignment.fubLeadId, agent |-> assignedTo[assignment.fubLeadId],
     assignedAt |-> assignment.assignedAt]

\* The parameters of sendTimerExpiredNotification: leadName, agentName and
\* agentEmail, assignedAt, all read from the row the pass fetched.
Notification(assignment) ==
    [lead |-> assignment.fubLeadId, agent |-> assignment.agentId,
     assignedAt |-> assignment.assignedAt]

\* sendTimerExpiredNotification without the try/catch around the send: an
\* error of the transport is thrown to the pass, whose catch ends it.
SendTimerExpiredNotification_Throws(run) ==
    /\ run.pc = "notify"
    /\ \/ /\ ~proc.resend
          /\ res' = Moved(res, run, [run EXCEPT !.pc = "updateReassigned"])
          /\ UNCHANGED outbox
       \/ /\ proc.resend /\ ~proc.recipients
          /\ res' = Moved(res, run, [run EXCEPT !.pc = "updateReassigned"])
          /\ UNCHANGED outbox
       \/ /\ proc.resend /\ proc.recipients
          /\ res' = Moved(res, run, [run EXCEPT !.pc = "updateReassigned"])
          /\ outbox' = outbox \cup {Notification(Head(run.expired))}
       \/ /\ proc.resend /\ proc.recipients
          /\ res' = Moved(res, run, IdleRes)
          /\ UNCHANGED outbox
    /\ UNCHANGED <<proc, clock, assignedTo, callLog, tags, rows, sources, seenLeads, det,
                   faults, callsDown, tagAttempts, notifyAttempts, statusWrites>>

\* sendTimerExpiredNotification returned: it skipped the mail (no transport,
\* or no recipient), or the transport accepted it, or the transport threw
\* and the error was logged.  The pass awaits the update to `reassigned`.
SendTimerExpiredNotification(run) ==
    /\ run.pc = "notify"
    /\ \/ /\ ~proc.resend
          /\ UNCHANGED outbox
       \/ /\ proc.resend /\ ~proc.recipients
          /\ UNCHANGED outbox
       \/ /\ proc.resend /\ proc.recipients
          /\ outbox' = outbox \cup {Notification(Head(run.expired))}
       \/ /\ proc.resend /\ proc.recipients
          /\ UNCHANGED outbox
    /\ res' = Moved(res, run, [run EXCEPT !.pc = "updateReassigned"])
    /\ UNCHANGED <<proc, clock, assignedTo, callLog, tags, rows, sources, seenLeads, det,
                   faults, callsDown, tagAttempts, notifyAttempts, statusWrites>>

\* The update to `reassigned` was executed; the loop goes on.
UpdateReassigned(run) ==
    /\ run.pc = "updateReassigned"
    /\ LET id == Head(run.expired).id
       IN  /\ rows' = [rows EXCEPT ![id] = SetReassigned(@, run.now)]
           /\ statusWrites' = [statusWrites EXCEPT ![id] = @ + 1]
    /\ res' = Moved(res, run, ContinueRes([run EXCEPT !.written = @ + 1], Tail(run.expired)))
    /\ UNCHANGED <<proc, outbox, clock, assignedTo, callLog, tags, sources, seenLeads, det,
                   faults, callsDown, tagAttempts, notifyAttempts>>

\* A store operation of a pass threw: caught at the end of the task, the
\* pass ends.
ResolutionStoreError(run) ==
    /\ run.pc \in {"findExpired", "updateCalled", "updateReassigned"}
    /\ faults < MaxFaults
    /\ faults' = faults + 1
    /\ res' = Moved(res, run, IdleRes)
    /\ UNCHANGED <<proc, outbox, clock, assignedTo, callLog, tags, rows, sources, seenLeads, det,
                   callsDown, tagAttempts, notifyAttempts, statusWrites>>

(***************************************************************************)
(* Environment: clock, CRM, administrators                                 *)
(***************************************************************************)
Tick ==
    /\ clock < MaxTicks * TickStep
    /\ clock' = clock + TickStep
    /\ UNCHANGED <<proc, outbox, assignedTo, callLog, tags, rows, sources, seenLeads, det, res,
                   faults, callsDown, tagAttempts, notifyAttempts, statusWrites>>

\* The CRM assigns a lead to another agent, or to nobody.
Assign(l, a) ==
    /\ assignedTo[l] # a
    /\ assignedTo' = [assignedTo EXCEPT ![l] = a]
    /\ UNCHANGED <<proc, outbox, clock, callLog, tags, rows, sources, seenLeads, det, res,
                   faults, callsDown, tagAttempts, notifyAttempts, statusWrites>>

\* An agent calls a lead: the CRM logs the call with the current time; the
\* API may list it before or after the calls it already has.
LogCall(l) ==
    /\ SumSeq([i \in 1..MaxLeads |-> Len(callLog[i])]) < MaxCalls
    /\ \/ callLog' = [callLog EXCEPT ![l] = Append(@, clock)]
       \/ callLog' = [callLog EXCEPT ![l] = <<clock>> \o @]
    /\ UNCHANGED <<proc, outbox, clock, assignedTo, tags, rows, sources, seenLeads, det, res,
                   faults, callsDown, tagAttempts, notifyAttempts, statusWrites>>

\* The CRM starts / stops answering non-2xx to the call-history request of a lead.
CallsOutage(l) ==
    /\ callsDown' = IF l \in callsDown THEN callsDown \ {l} ELSE callsDown \cup {l}
    /\ UNCHANGED <<proc, outbox, clock, assignedTo, callLog, tags, rows, sources, seenLeads, det, res,
                   faults, tagAttempts, notifyAttempts, statusWrites>>

\* POST /api/sources/monitored {sourceName, timerMinutes = 30}: the insert
\* fails on a source name already there.
PostMonitoredSource(name, timerMinutes) ==
    /\ sources[name] = NoSource
    /\ sources' = [sources EXCEPT ![name] = [timerMinutes |-> timerMinutes, enabled |-> 1]]
    /\ UNCHANGED <<proc, outbox, clock, assignedTo, callLog, tags, rows, seenLeads, det, res,
                   faults, callsDown, tagAttempts, notifyAttempts, statusWrites>>

\* PATCH /api/sources/monitored/:id {enabled}
PatchEnabled(name, enabled) ==
    /\ sources[name] # NoSource
    /\ sources[name].enabled # (IF enabled THEN 1 ELSE 0)
    /\ sources' = [sources EXCEPT ![name].enabled = IF enabled THEN 1 ELSE 0]
    /\ UNCHANGED <<proc, outbox, clock, assignedTo, callLog, tags, rows, seenLeads, det, res,
                   faults, callsDown, tagAttempts, notifyAttempts, statusWrites>>

\* PATCH /api/sources/monitored/:id {timerMinutes}
PatchTimerMinutes(name, timerMinutes) ==
    /\ sources[name] # NoSource
    /\ sources[name].timerMinutes # timerMinutes
    /\ sources' = [sources EXCEPT ![name].timerMinutes = timerMinutes]
    /\ UNCHANGED <<proc, outbox, clock, assignedTo, callLog, tags, rows, seenLeads, det, res,
                   faults, callsDown, tagAttempts, notifyAttempts, statusWrites>>

\* A restart that kept the Map of the previous process.
Restart_KeepsSeen ==
    /\ proc.restarts < MaxRestarts
    /\ proc' = [proc EXCEPT !.alive = TRUE, !.restarts = @ + 1]
    /\ det' = EmptyBag
    /\ res' = EmptyBag
    /\ UNCHANGED <<outbox, clock, assignedTo, callLog, tags, rows, sources, seenLeads,
                   faults, callsDown, tagAttempts, notifyAttempts, statusWrites>>

\* The process is stopped and started again: the runs in flight are gone,
\* seenLeads is a new empty Map, startMonitoring sets the intervals again.
\* The store and the CRM keep what they have.
Restart ==
    /\ proc.restarts < MaxRestarts
    /\ proc' = [proc EXCEPT !.alive = TRUE, !.restarts = @ + 1]
    /\ seenLeads' = [l \in Leads |-> NoAgent]
    /\ det' = EmptyBag
    /\ res' = EmptyBag
    /\ UNCHANGED <<outbox, clock, assignedTo, callLog, tags, rows, sources,
                   faults, callsDown, tagAttempts, notifyAttempts, statusWrites>>

\* The leads the CRM holds in the specifications that follow one lead.
FocusLeads == {1}

\* The source the administrator registers in the specifications that follow
\* one source.
FocusSources == {"Zillow"}

(***************************************************************************)
(* Specification                                                           *)
(***************************************************************************)
Init ==
    /\ clock = 0
    /\ assignedTo = [l \in Leads |-> IF l \in FocusLeads THEN NoAgent ELSE Null]
    /\ callLog = [l \in Leads |-> <<>>]
    /\ tags = [l \in Leads |-> <<>>]
    /\ rows = <<>>
    /\ sources = [n \in SourceNames |-> NoSource]
    /\ seenLeads = [l \in Leads |-> NoAgent]
    /\ det = EmptyBag
    /\ res = EmptyBag
    /\ faults = 0
    /\ callsDown = {}
    /\ tagAttempts = [i \in RowIds |-> 0]
    /\ notifyAttempts = [i \in RowIds |-> 0]
    /\ statusWrites = [i \in RowIds |-> 0]
    /\ proc = StartedProcess
    /\ outbox = {}

\* The steps of the runs of the two detection tasks.
Detection ==
    \/ StartCheckForNewLeads
    \/ StartCheckSourceLeads
    \/ \E run \in BagToSet(det) :
          \/ GetPondLeads(run)
          \/ GetPondLeadsError(run)
          \/ FindMonitoredSources(run)
          \/ GetLeadsBySource(run)
          \/ GetLeadsBySourceError(run)
          \/ FindFirstPending(run)
          \/ InsertAssignment(run)
          \/ DetectionStoreError(run)

\* The steps of the runs of a deployment that monitors no source:
\* checkSourceLeads returns after its registry query.
PondDetection ==
    \/ StartCheckForNewLeads
    \/ StartCheckSourceLeads
    \/ \E run \in BagToSet(det) :
          \/ GetPondLeads(run)
          \/ GetPondLeadsError(run)
          \/ FindMonitoredSources(run)
          \/ FindFirstPending(run)
          \/ InsertAssignment(run)
          \/ DetectionStoreError(run)

\* The steps of the passes of the resolution task.
Resolution ==
    \/ StartCheckExpiredTimersAndTag
    \/ \E run \in BagToSet(res) :
          \/ FindExpired(run)
          \/ GetPersonCalls(run)
          \/ GetPersonCallsError(run)
          \/ UpdateCalled(run)
          \/ AddTagGet(run)
          \/ AddTagPut(run)
          \/ AddTagError(run)
          \/ SendTimerExpiredNotification(run)
          \/ UpdateReassigned(run)
          \/ ResolutionStoreError(run)

\* Spec: the life of the assignments of one lead of the pond, in a
\* deployment that monitors no source.  The lead is assigned, reassigned and
\* called while detection runs and resolution passes overlap.
Next ==
    \/ PondDetection
    \/ Resolution
    \/ Tick
    \/ \E l \in FocusLeads, a \in Agents \cup {NoAgent} : Assign(l, a)
    \/ \E l \in FocusLeads : LogCall(l)

Spec == Init /\ [][Next]_vars

\* DetectSpec: the two detection tasks over all leads, with administrators
\* editing the registry; no row is resolved.
DetectNext ==
    \/ Detection
    \/ Tick
    \/ \E l \in FocusLeads, a \in Agents \cup {NoAgent} : Assign(l, a)
    \/ \E n \in FocusSources, m \in TimerInputs \cup {TIMER_MINUTES} : PostMonitoredSource(n, m)
    \/ \E n \in FocusSources, e \in BOOLEAN : PatchEnabled(n, e)
    \/ \E n \in FocusSources, m \in TimerInputs : PatchTimerMinutes(n, m)

DetectSpec == Init /\ [][DetectNext]_vars

\* BatchSpec: every lead of the pond is assigned when the process starts, so
\* that a resolution pass finds several expired rows at once; the CRM may
\* stop answering the call-history request of the first lead.
BatchInit ==
    /\ clock = 0
    /\ assignedTo = [l \in Leads |-> 1]
    /\ callLog = [l \in Leads |-> <<>>]
    /\ tags = [l \in Leads |-> <<>>]
    /\ rows = <<>>
    /\ sources = [n \in SourceNames |-> NoSource]
    /\ seenLeads = [l \in Leads |-> NoAgent]
    /\ det = EmptyBag
    /\ res = EmptyBag
    /\ faults = 0
    /\ callsDown = {}
    /\ tagAttempts = [i \in RowIds |-> 0]
    /\ notifyAttempts = [i \in RowIds |-> 0]
    /\ statusWrites = [i \in RowIds |-> 0]
    /\ proc = StartedProcess
    /\ outbox = {}

OutageLeads == {1}

BatchResolution ==
    \/ StartCheckExpiredTimersAndTag
    \/ \E run \in BagToSet(res) :
          \/ FindExpired(run)
          \/ GetPersonCalls(run)
          \/ GetPersonCallsOutage(run)
          \/ UpdateCalled(run)
          \/ AddTagGet(run)
          \/ AddTagPut(run)
          \/ AddTagError(run)
          \/ SendTimerExpiredNotification(run)
          \/ UpdateReassigned(run)
          \/ ResolutionStoreError(run)

BatchNext ==
    \/ PondDetection
    \/ BatchResolution
    \/ Tick
    \/ \E l \in Leads : LogCall(l)
    \/ \E l \in OutageLeads : CallsOutage(l)

BatchSpec == BatchInit /\ [][BatchNext]_vars

\* LiveSpec: the process starts on a store that holds one pending row of
\* the pond per lead (the rows BatchSpec's detection inserts at time 0), and
\* only the resolution task is followed, each pass ending before the next
\* interval.  setInterval keeps starting passes and every awaited operation
\* of a pass returns or throws: weak fairness on the start of a pass and on
\* the steps of the pass in flight.
LiveInit ==
    /\ clock = 0
    /\ assignedTo = [l \in Leads |-> 1]
    /\ callLog = [l \in Leads |-> <<>>]
    /\ tags = [l \in Leads |-> <<>>]
    /\ rows = [l \in Leads |->
                 NewAssignment([id |-> l, assignedTo |-> 1], 0,
                               ExpiresAt(0, TIMER_MINUTES), "pond", Null)]
    /\ sources = [n \in SourceNames |-> NoSource]
    /\ seenLeads = [l \in Leads |-> 1]
    /\ det = EmptyBag
    /\ res = EmptyBag
    /\ faults = 0
    /\ callsDown = {}
    /\ tagAttempts = [i \in RowIds |-> 0]
    /\ notifyAttempts = [i \in RowIds |-> 0]
    /\ statusWrites = [i \in RowIds |-> 0]
    /\ proc = StartedProcess
    /\ outbox = {}

PassStep ==
    \E run \in BagToSet(res) :
       \/ FindExpired(run)
       \/ GetPersonCalls(run)
       \/ GetPersonCallsOutage(run)
       \/ UpdateCalled(run)
       \/ AddTagGet(run)
       \/ AddTagPut(run)
       \/ AddTagError(run)
       \/ SendTimerExpiredNotification(run)
       \/ UpdateReassigned(run)
       \/ ResolutionStoreError(run)

\* The interval fires after the previous pass has ended.
StartNextPass ==
    /\ res = EmptyBag
    /\ StartCheckExpiredTimersAndTag

LiveNext ==
    \/ StartNextPass
    \/ PassStep
    \/ Tick
    \/ \E l \in Leads : LogCall(l)
    \/ \E l \in OutageLeads : CallsOutage(l)

LiveSpec ==
    /\ LiveInit
    /\ [][LiveNext]_vars
    /\ WF_vars(StartNextPass)
    /\ WF_vars(PassStep)

\* ResolveSpec: the resolution task alone, its passes overlapping, on the
\* store of LiveSpec, for every configuration of the mail transport the
\* process can start with; the CRM moves the first lead to other agents
\* while its row waits.
MailConfigurations ==
    {[StartedProcess EXCEPT !.resend = r, !.recipients = c] : r, c \in BOOLEAN}

ResolveInit ==
    /\ clock = 0
    /\ assignedTo = [l \in Leads |-> 1]
    /\ callLog = [l \in Leads |-> <<>>]
    /\ tags = [l \in Leads |-> <<"Buyer">>]
    /\ rows = [l \in Leads |->
                 NewAssignment([id |-> l, assignedTo |-> 1], 0,
                               ExpiresAt(0, TIMER_MINUTES), "pond", Null)]
    /\ sources = [n \in SourceNames |-> NoSource]
    /\ seenLeads = [l \in Leads |-> 1]
    /\ det = EmptyBag
    /\ res = EmptyBag
    /\ faults = 0
    /\ callsDown = {}
    /\ tagAttempts = [i \in RowIds |-> 0]
    /\ notifyAttempts = [i \in RowIds |-> 0]
    /\ statusWrites = [i \in RowIds |-> 0]
    /\ proc \in MailConfigurations
    /\ outbox = {}

ResolveNext ==
    \/ Resolution
    \/ Tick
    \/ \E l \in FocusLeads, a \in Agents : Assign(l, a)
    \/ \E l \in Leads : LogCall(l)

ResolveSpec == ResolveInit /\ [][ResolveNext]_vars

\* RestartSpec: a deployment that monitors one source next to the pond, and
\* whose process is restarted; no row is resolved.  After the restart the
\* first runs of checkForNewLeads and checkSourceLeads start together.
RestartInit ==
    /\ clock = 0
    /\ assignedTo = [l \in Leads |-> NoAgent]
    /\ callLog = [l \in Leads |-> <<>>]
    /\ tags = [l \in Leads |-> <<>>]
    /\ rows = <<>>
    /\ sources = [n \in SourceNames |->
                    IF n \in FocusSources THEN [timerMinutes |-> TIMER_MINUTES, enabled |-> 1]
                    ELSE NoSource]
    /\ seenLeads = [l \in Leads |-> NoAgent]
    /\ det = EmptyBag
    /\ res = EmptyBag
    /\ faults = 0
    /\ callsDown = {}
    /\ tagAttempts = [i \in RowIds |-> 0]
    /\ notifyAttempts = [i \in RowIds |-> 0]
    /\ statusWrites = [i \in RowIds |-> 0]
    /\ proc = StartedProcess
    /\ outbox = {}

RestartNext ==
    \/ Detection
    \/ Restart
    \/ Tick
    \/ \E l \in FocusLeads, a \in Agents \cup {NoAgent} : Assign(l, a)

RestartSpec == RestartInit /\ [][RestartNext]_vars

(***************************************************************************)
(* Claims                                                                  *)
(***************************************************************************)
PendingRowsOf(l) ==
    {i \in 1..Len(rows) : rows[i].fubLeadId = l /\ rows[i].status = "pending"}

Terminal(row) == row.status \in {"called", "reassigned"}

\* C1: at most one pending row per external lead id, in every reachable
\* state, also when detection runs interleave at their awaits.
C1_AtMostOnePending ==
    \A l \in Leads : Cardinality(PendingRowsOf(l)) <= 1

\* C2: once a row is called or reassigned, no later step changes its status,
\* callDetectedAt, notifiedAt or reassignedAt.
C2_TerminalIsFinal ==
    [][\A i \in 1..Len(rows) :
          Terminal(rows[i]) =>
             /\ rows'[i].status = rows[i].status
             /\ rows'[i].callDetectedAt = rows[i].callDetectedAt
             /\ rows'[i].notifiedAt = rows[i].notifiedAt
             /\ rows'[i].reassignedAt = rows[i].reassignedAt]_vars

\* C3: over any execution at most one store write modifies the status of a
\* given row: of two passes that read the same expired pending row, only
\* one performs the transition.
C3_AtMostOneStatusWrite ==
    \A i \in RowIds : statusWrites[i] <= 1

\* C4: a row resolved to called on the evidence of a call made at or after
\* its assignedAt is never reassigned afterwards, whatever another pass saw
\* of the call history.
C4_CallPrecedence ==
    [][\A i \in 1..Len(rows) :
          (/\ rows[i].status = "called"
           /\ PersonCalls(rows[i].fubLeadId, rows[i].assignedAt) # <<>>)
          => rows'[i].status = "called"]_vars

\* C5: a row gets at most one tag-application attempt and at most one
\* notification attempt over the whole execution, and a reassigned row got
\* exactly one of each.
C5_OneEscalation ==
    \A i \in 1..Len(rows) :
       /\ tagAttempts[i] <= 1
       /\ notifyAttempts[i] <= 1
       /\ rows[i].status = "reassigned" => tagAttempts[i] = 1 /\ notifyAttempts[i] = 1

\* C10: callDetectedAt is set only on called rows, notifiedAt and
\* reassignedAt only on reassigned rows, and a pending row has none of them.
C10_TimestampsMatchStatus ==
    \A i \in 1..Len(rows) :
       /\ rows[i].callDetectedAt # Null => rows[i].status = "called"
       /\ rows[i].notifiedAt # Null => rows[i].status = "reassigned"
       /\ rows[i].reassignedAt # Null => rows[i].status = "reassigned"
       /\ rows[i].status = "pending" =>
             /\ rows[i].callDetectedAt = Null
             /\ rows[i].notifiedAt = Null
             /\ rows[i].reassignedAt = Null

\* C8: every inserted row has timerExpiresAt = assignedAt + D minutes, with
\* D the timerMinutes of the source that detected it (30 when that is not
\* set, which for the NOT NULL column is the value 0) for a row of
\* checkSourceLeads, and D = 30 for a row of checkForNewLeads.
C8_TimerComputation ==
    \A i \in 1..Len(rows) :
       LET D == IF rows[i].via = "source"
                THEN (IF rows[i].cfgMinutes = 0 THEN 30 ELSE rows[i].cfgMinutes)
                ELSE 30
       IN  rows[i].timerExpiresAt = rows[i].assignedAt + D

\* A row inserted by checkSourceLeads, after the clock has advanced, for a
\* source configured with a timer other than the default.
C8_Witness ==
    \E i \in 1..Len(rows) :
       /\ rows[i].via = "source"
       /\ rows[i].cfgMinutes \notin {0, TIMER_MINUTES}
       /\ rows[i].assignedAt > 0

\* A detection run that was at `pc` and has taken a step without an error
\* (the run was not ended by a restart either).
DetStepped(run, pc) ==
    /\ run.pc = pc
    /\ CopiesIn(run, det') < CopiesIn(run, det)
    /\ faults' = faults
    /\ proc' = proc

\* C9: when a detection cycle observes a lead with a new assignee and the
\* lead has no pending row (its prior rows are terminal), the cycle inserts
\* a new pending row for the lead and that agent: the findFirst that finds
\* no pending row is followed by the insert, the insert appends the row,
\* and the new assignee is recorded in seenLeads only with that row.
C9_ReentryInsertsRow ==
    [][/\ \A run \in BagToSet(det) :
             /\ (DetStepped(run, "findFirst") /\ PendingRowsOf(Head(run.leads).id) = {})
                => \E next \in BagToSet(det') :
                      next.pc = "insert" /\ next.leads = run.leads
             /\ DetStepped(run, "insert")
                => /\ Len(rows') = Len(rows) + 1
                   /\ rows'[Len(rows')].fubLeadId = Head(run.leads).id
                   /\ rows'[Len(rows')].agentId = Head(run.leads).assignedTo
                   /\ rows'[Len(rows')].status = "pending"
       /\ \A l \in Leads :
             (seenLeads'[l] \notin {seenLeads[l], NoAgent} /\ PendingRowsOf(l) = {})
             => /\ Len(rows') = Len(rows) + 1
                /\ rows'[Len(rows')].fubLeadId = l
                /\ rows'[Len(rows')].agentId = seenLeads'[l]
                /\ rows'[Len(rows')].status = "pending"]_vars

\* A lead whose first row is terminal has a later pending row for another
\* agent, inserted after the first row's deadline.
C9_Witness ==
    \E i, j \in 1..Len(rows) :
       /\ i < j
       /\ rows[i].fubLeadId = rows[j].fubLeadId
       /\ Terminal(rows[i])
       /\ rows[j].status = "pending"
       /\ rows[j].agentId # rows[i].agentId
       /\ rows[j].assignedAt > rows[i].timerExpiresAt

\* C6: within one resolution cycle, a failure while processing one row
\* (call-history query error, store update error) does not keep the
\* remaining rows fetched in that cycle from being processed: a pass that
\* takes a step while it still holds more than one row goes on, with the
\* same row or with the next.
C6_PerRowIsolation ==
    [][\A run \in BagToSet(res) :
          (/\ run.pc \in {"getPersonCalls", "updateCalled", "updateReassigned"}
           /\ Len(run.expired) > 1
           /\ CopiesIn(run, res') < CopiesIn(run, res))
          => \E next \in BagToSet(res') :
                /\ CopiesIn(next, res') > CopiesIn(next, res)
                /\ next.now = run.now
                /\ next.expired \in {run.expired, Tail(run.expired)}]_vars

\* C7: under fair scheduling of the resolution task, every pending row
\* whose deadline has passed eventually becomes called or reassigned, given
\* that the call-history query of its own lead succeeds (its lead has no
\* outage) and the store eventually succeeds (errors are finitely many),
\* whatever happens to the queries of other rows.
C7_EventualResolution ==
    \A i \in RowIds :
       (/\ i <= Len(rows)
        /\ rows[i].fubLeadId \notin OutageLeads
        /\ rows[i].status = "pending"
        /\ rows[i].timerExpiresAt < clock)
       ~> (i <= Len(rows) /\ Terminal(rows[i]))

\* A pass that was at `pc` and has taken a step without an error (the pass
\* was not ended by a restart either).
ResStepped(run, pc) ==
    /\ run.pc = pc
    /\ CopiesIn(run, res') < CopiesIn(run, res)
    /\ faults' = faults
    /\ proc' = proc

\* The CRM, the mail transport and the escalation counters are left alone.
NoEscalationEffect ==
    /\ tags' = tags
    /\ assignedTo' = assignedTo
    /\ outbox' = outbox
    /\ tagAttempts' = tagAttempts
    /\ notifyAttempts' = notifyAttempts

\* C11: when a pass finds at least one call for a row, it makes no tag,
\* reassignment or notification call for the row: from the call-history
\* answer it goes to the update to called and from there to the next row,
\* and that update writes status = called and callDetectedAt, nothing else.
C11_CalledPathNoSideEffects ==
    [][\A run \in BagToSet(res) :
          /\ (/\ ResStepped(run, "getPersonCalls")
              /\ PersonCalls(Head(run.expired).fubLeadId, Head(run.expired).assignedAt) # <<>>)
             => /\ \E next \in BagToSet(res') :
                      /\ CopiesIn(next, res') > CopiesIn(next, res)
                      /\ next.pc = "updateCalled"
                      /\ next.expired = run.expired
                /\ NoEscalationEffect
                /\ rows' = rows
          /\ ResStepped(run, "updateCalled")
             => /\ NoEscalationEffect
                /\ rows'[Head(run.expired).id].callDetectedAt # Null
                /\ rows' = [rows EXCEPT ![Head(run.expired).id] =
                               [@ EXCEPT !.status = "called",
                                         !.callDetectedAt =
                                            rows'[Head(run.expired).id].callDetectedAt]]
                /\ \A next \in BagToSet(res') :
                      CopiesIn(next, res') > CopiesIn(next, res)
                      => /\ next.pc = "getPersonCalls"
                         /\ next.expired = Tail(run.expired)]_vars

\* A row resolved to called for which no pass ever attempted the tag or the
\* notification, while another row was escalated.
C11_Witness ==
    \E i, j \in 1..Len(rows) :
       /\ rows[i].status = "called"
       /\ tagAttempts[i] = 0 /\ notifyAttempts[i] = 0
       /\ ~Includes(tags[rows[i].fubLeadId], REASSIGNED_TAG)
       /\ rows[j].status = "reassigned"

\* C12: in the no-call branch the tag and the notification never gate the
\* transition.  Whatever addTagToPerson does (answers or throws) the pass
\* goes on with the same row, and after a throw it calls the notification;
\* whatever sendTimerExpiredNotification does (sends, fails, skips for lack
\* of configuration) the pass goes to the update, which writes reassigned.
C12_BestEffortEscalation ==
    [][\A run \in BagToSet(res) :
          /\ (run.pc \in {"addTagGet", "addTagPut"} /\ CopiesIn(run, res') < CopiesIn(run, res))
             => \E next \in BagToSet(res') :
                   /\ CopiesIn(next, res') > CopiesIn(next, res)
                   /\ next.expired = run.expired
                   /\ next.pc \in {"addTagPut", "notify"}
                   /\ faults' > faults
                      => /\ next.pc = "notify"
                         /\ notifyAttempts'[Head(run.expired).id] =
                               notifyAttempts[Head(run.expired).id] + 1
          /\ (run.pc = "notify" /\ CopiesIn(run, res') < CopiesIn(run, res))
             => \E next \in BagToSet(res') :
                   /\ CopiesIn(next, res') > CopiesIn(next, res)
                   /\ next.expired = run.expired
                   /\ next.pc = "updateReassigned"
          /\ ResStepped(run, "updateReassigned")
             => rows'[Head(run.expired).id].status = "reassigned"]_vars

\* With the mail transport configured: one row is reassigned although its
\* only tag attempt failed and its mail was not accepted, another row is
\* reassigned with the tag applied and the mail accepted.
C12_Witness ==
    /\ proc.resend /\ proc.recipients
    /\ \E i, j \in 1..Len(rows) :
          /\ rows[i].status = "reassigned" /\ rows[j].status = "reassigned"
          /\ tagAttempts[i] = 1 /\ tagAttempts[j] = 1
          /\ ~Includes(tags[rows[i].fubLeadId], REASSIGNED_TAG)
          /\ Notification(rows[i]) \notin outbox
          /\ Includes(tags[rows[j].fubLeadId], REASSIGNED_TAG)
          /\ Notification(rows[j]) \in outbox

\* C13: a row is modified only by a step of a pass that holds it and whose
\* cycle time `now` is strictly greater than the row's timerExpiresAt, and
\* a pass never holds a row whose deadline is not before its `now`; so a
\* pending row that has not expired is left alone, call or no call.
C13_NoResolutionBeforeExpiry ==
    [][/\ \A i \in 1..Len(rows) :
             rows'[i] # rows[i]
             => \E run \in BagToSet(res) :
                   /\ CopiesIn(run, res') < CopiesIn(run, res)
                   /\ run.expired # <<>>
                   /\ Head(run.expired).id = i
                   /\ run.now > rows[i].timerExpiresAt
       /\ \A run \in BagToSet(res') :
             \A k \in 1..Len(run.expired) :
                rows'[run.expired[k].id].timerExpiresAt < run.now]_vars

\* A row whose lead was called before the deadline and which was resolved
\* to called with that call, and a row still pending at its deadline with a
\* call on record.
C13_Witness ==
    \E i, j \in 1..Len(rows) :
       /\ rows[i].status = "called"
       /\ rows[i].callDetectedAt < rows[i].timerExpiresAt
       /\ rows[j].status = "pending"
       /\ clock = rows[j].timerExpiresAt
       /\ PersonCalls(rows[j].fubLeadId, rows[j].assignedAt) # <<>>

\* C14: no outcome of a cycle stops the scheduler.  In every reachable
\* state, those after failed cycles included, the process is running and
\* each of the three periodic tasks can start its next run (when the bound
\* on runs in flight leaves room for one).
C14_SchedulerNeverStops ==
    /\ proc.alive
    /\ RunsInFlight < MaxRuns
       => /\ ENABLED StartCheckForNewLeads
          /\ ENABLED StartCheckSourceLeads
          /\ ENABLED StartCheckExpiredTimersAndTag

\* A cycle has failed and ended, leaving an expired row pending, and no run
\* is in flight.
C14_Witness ==
    /\ faults > 0
    /\ RunsInFlight = 0
    /\ \E i \in 1..Len(rows) :
          rows[i].status = "pending" /\ rows[i].timerExpiresAt < clock

\* C15: at-most-one-pending holds across restarts.  Once the process has
\* been restarted with an empty seenLeads, every assigned lead is taken as
\* newly assigned by the detection runs, and still no row is inserted for a
\* lead that has a pending row in the store.
C15_OnePendingAcrossRestart ==
    [][(proc.restarts > 0 /\ Len(rows') > Len(rows))
       => PendingRowsOf(rows'[Len(rows')].fubLeadId) = {}]_vars

\* C16: only enabled sources are watched.  The sources a run of
\* checkSourceLeads takes from the registry are all enabled when it reads
\* it (with none enabled the run ends there), the run never visits a source
\* it did not take then, and a row it inserts is inserted for the source
\* it is visiting.
C16_OnlyEnabledSourcesWatched ==
    [][\A run \in BagToSet(det) :
          /\ DetStepped(run, "findSources")
             => /\ rows' = rows /\ seenLeads' = seenLeads
                /\ \A next \in BagToSet(det') :
                      CopiesIn(next, det') > CopiesIn(next, det)
                      => /\ next.pc = "getLeadsBySource"
                         /\ next.srcs # <<>>
                         /\ \A k \in 1..Len(next.srcs) :
                               /\ sources[next.srcs[k].sourceName] # NoSource
                               /\ sources[next.srcs[k].sourceName].enabled = 1
          /\ (/\ run.kind = "source" /\ run.pc # "findSources"
              /\ CopiesIn(run, det') < CopiesIn(run, det))
             => /\ \A next \in BagToSet(det') :
                      CopiesIn(next, det') > CopiesIn(next, det)
                      => next.kind = "source" /\ next.srcs \in {run.srcs, Tail(run.srcs)}
                /\ Len(rows') > Len(rows)
                   => /\ run.pc = "insert"
                      /\ rows'[Len(rows')].via = "source"
                      /\ rows'[Len(rows')].cfgMinutes = Head(run.srcs).timerMinutes
          /\ (run.kind = "pond" /\ CopiesIn(run, det') < CopiesIn(run, det)
              /\ Len(rows') > Len(rows))
             => rows'[Len(rows')].via = "pond"]_vars

\* The source is paused; the lead, which the pond lists too, has its row
\* from checkForNewLeads and none from checkSourceLeads.
C16_Witness ==
    /\ \E n \in SourceNames : sources[n] # NoSource /\ sources[n].enabled = 0
    /\ rows # <<>>
    /\ \A i \in 1..Len(rows) : rows[i].via = "pond"
    /\ \E l \in Leads : seenLeads[l] # NoAgent
    /\ det = EmptyBag

\* C17: rows are never deleted; a row is inserted only by a step of a
\* detection run, which leaves every existing row, the CRM and the mail
\* transport as they are; an existing row is modified only by a step of a
\* resolution pass, which inserts nothing.
C17_LifecycleFrame ==
    [][/\ Len(rows') >= Len(rows)
       /\ (\E i \in 1..Len(rows) : rows'[i] # rows[i])
          => /\ res' # res /\ det' = det
             /\ Len(rows') = Len(rows)
       /\ Len(rows') > Len(rows)
          => /\ det' # det /\ res' = res
             /\ Len(rows') = Len(rows) + 1
       /\ det' # det
          => /\ SubSeq(rows', 1, Len(rows)) = rows
             /\ NoEscalationEffect
             /\ statusWrites' = statusWrites
       /\ res' # res
          => /\ Len(rows') = Len(rows)
             /\ seenLeads' = seenLeads]_vars

\* A lead whose first row was escalated (tag applied) and resolved by the
\* resolution task has a second row, inserted by detection afterwards.
C17_Witness ==
    /\ Len(rows) = 2
    /\ rows[1].status = "reassigned"
    /\ Includes(tags[rows[1].fubLeadId], REASSIGNED_TAG)
    /\ rows[2].fubLeadId = rows[1].fubLeadId
    /\ rows[2].status = "pending"
    /\ rows[2].assignedAt > rows[1].timerExpiresAt

\* C18: the lead, the agent, assignedAt and timerExpiresAt of a row never
\* change after its insert, whatever the CRM does with the lead's assignee,
\* and every notification mail carries the lead, agent and assignedAt of a
\* stored row.
C18_SnapshotImmutable ==
    [][/\ \A i \in 1..Len(rows) :
             /\ rows'[i].fubLeadId = rows[i].fubLeadId
             /\ rows'[i].agentId = rows[i].agentId
             /\ rows'[i].assignedAt = rows[i].assignedAt
             /\ rows'[i].timerExpiresAt = rows[i].timerExpiresAt
       /\ \A mail \in outbox' \ outbox :
             \E i \in 1..Len(rows') :
                /\ mail.lead = rows'[i].fubLeadId
                /\ mail.agent = rows'[i].agentId
                /\ mail.assignedAt = rows'[i].assignedAt]_vars

\* A mail was sent for a row of agent 1 while the lead was, by then, with
\* another agent in the CRM; the row, now reassigned, still names agent 1.
C18_Witness ==
    \E i \in 1..Len(rows) :
       /\ rows[i].status = "reassigned"
       /\ \E mail \in outbox :
             mail.lead = rows[i].fubLeadId /\ mail.agent = rows[i].agentId
       /\ assignedTo[rows[i].fubLeadId] \notin {rows[i].agentId, NoAgent}
       /\ \A mail \in outbox : mail.agent # assignedTo[rows[i].fubLeadId]

\* C19: the callDetectedAt of a called row is the earliest of the calls the
\* call-history query returns for the row (the calls of its lead made at or
\* after assignedAt), in whatever order the CRM lists them.
C19_EarliestCall ==
    \A i \in 1..Len(rows) :
       rows[i].status = "called"
       => LET calls == PersonCalls(rows[i].fubLeadId, rows[i].assignedAt)
          IN  /\ calls # <<>>
              /\ \A k \in 1..Len(calls) : rows[i].callDetectedAt <= calls[k]

\* C20: when a detection run has processed an assigned lead without error,
\* the lead's seenLeads entry is the assignee the run observed, whether the
\* run found a pending row (and inserted nothing) or inserted a row; and a
\* run changes no other entry.
C20_SeenUpdatedUnconditionally ==
    [][\A run \in BagToSet(det) :
          /\ (DetStepped(run, "findFirst") /\ PendingRowsOf(Head(run.leads).id) # {})
             => /\ seenLeads'[Head(run.leads).id] = Head(run.leads).assignedTo
                /\ rows' = rows
          /\ DetStepped(run, "insert")
             => /\ seenLeads'[Head(run.leads).id] = Head(run.leads).assignedTo
                /\ Len(rows') = Len(rows) + 1
          /\ (CopiesIn(run, det') < CopiesIn(run, det) /\ run.leads # <<>> /\ proc' = proc)
             => \A l \in Leads \ {Head(run.leads).id} : seenLeads'[l] = seenLeads[l]]_vars

\* The lead's pending row names agent A, the CRM and seenLeads name agent
\* B: a run saw the change, found the pending row and recorded B without
\* inserting.
C20_Witness ==
    \E i \in 1..Len(rows) :
       /\ rows[i].status = "pending"
       /\ Len(rows) = 1
       /\ seenLeads[rows[i].fubLeadId] \notin {rows[i].agentId, NoAgent}
       /\ seenLeads[rows[i].fubLeadId] = assignedTo[rows[i].fubLeadId]
       /\ det = EmptyBag

\* SourcesSpec: a deployment that monitors two sources next to the pond.
\* The lead is assigned and reassigned while the detection runs overlap and
\* meet errors of the CRM and of the store; no row is resolved.
SourcesInit ==
    /\ clock = 0
    /\ assignedTo = [l \in Leads |-> IF l \in FocusLeads THEN NoAgent ELSE Null]
    /\ callLog = [l \in Leads |-> <<>>]
    /\ tags = [l \in Leads |-> <<>>]
    /\ rows = <<>>
    /\ sources = [n \in SourceNames |-> [timerMinutes |-> TIMER_MINUTES, enabled |-> 1]]
    /\ seenLeads = [l \in Leads |-> NoAgent]
    /\ det = EmptyBag
    /\ res = EmptyBag
    /\ faults = 0
    /\ callsDown = {}
    /\ tagAttempts = [i \in RowIds |-> 0]
    /\ notifyAttempts = [i \in RowIds |-> 0]
    /\ statusWrites = [i \in RowIds |-> 0]
    /\ proc = StartedProcess
    /\ outbox = {}

SourcesNext ==
    \/ Detection
    \/ \E l \in FocusLeads, a \in Agents \cup {NoAgent} : Assign(l, a)

SourcesSpec == SourcesInit /\ [][SourcesNext]_vars

\* ReopenSpec: the lead of the pond stays with its agent; its row, pending
\* at first, is resolved by the passes (called or reassigned), and the
\* process is restarted while detection and resolution run.
ReopenInit ==
    /\ clock = 0
    /\ assignedTo = [l \in Leads |-> IF l \in FocusLeads THEN 1 ELSE Null]
    /\ callLog = [l \in Leads |-> <<>>]
    /\ tags = [l \in Leads |-> <<>>]
    /\ rows = <<NewAssignment([id |-> 1, assignedTo |-> 1], 0,
                              ExpiresAt(0, TIMER_MINUTES), "pond", Null)>>
    /\ sources = [n \in SourceNames |-> NoSource]
    /\ seenLeads = [l \in Leads |-> IF l \in FocusLeads THEN 1 ELSE NoAgent]
    /\ det = EmptyBag
    /\ res = EmptyBag
    /\ faults = 0
    /\ callsDown = {}
    /\ tagAttempts = [i \in RowIds |-> 0]
    /\ notifyAttempts = [i \in RowIds |-> 0]
    /\ statusWrites = [i \in RowIds |-> 0]
    /\ proc = StartedProcess
    /\ outbox = {}

ReopenNext ==
    \/ PondDetection
    \/ Resolution
    \/ Restart
    \/ Tick
    \/ \E l \in FocusLeads : LogCall(l)

ReopenSpec == ReopenInit /\ [][ReopenNext]_vars

\* LookupSpec: the resolution task alone, its passes overlapping, on rows
\* that are pending when the process starts, with a store that answers
\* every statement: the only errors are those of the CRM.
LookupInit ==
    /\ clock = 0
    /\ assignedTo = [l \in Leads |-> 1]
    /\ callLog = [l \in Leads |-> <<>>]
    /\ tags = [l \in Leads |-> <<>>]
    /\ rows = [l \in Leads |->
                 NewAssignment([id |-> l, assignedTo |-> 1], 0,
                               ExpiresAt(0, TIMER_MINUTES), "pond", Null)]
    /\ sources = [n \in SourceNames |-> NoSource]
    /\ seenLeads = [l \in Leads |-> 1]
    /\ det = EmptyBag
    /\ res = EmptyBag
    /\ faults = 0
    /\ callsDown = {}
    /\ tagAttempts = [i \in RowIds |-> 0]
    /\ notifyAttempts = [i \in RowIds |-> 0]
    /\ statusWrites = [i \in RowIds |-> 0]
    /\ proc = StartedProcess
    /\ outbox = {}

LookupNext ==
    \/ StartCheckExpiredTimersAndTag
    \/ \E run \in BagToSet(res) :
          \/ FindExpired(run)
          \/ GetPersonCalls(run)
          \/ GetPersonCallsError(run)
          \/ UpdateCalled(run)
          \/ AddTagGet(run)
          \/ AddTagPut(run)
          \/ AddTagError(run)
          \/ SendTimerExpiredNotification(run)
          \/ UpdateReassigned(run)
    \/ Tick
    \/ \E l \in Leads : LogCall(l)

LookupSpec == LookupInit /\ [][LookupNext]_vars

\* StampSpec: the resolution task alone, its passes overlapping, on rows of
\* a source whose timer is one minute: the rows are past their deadline
\* from the first tick on, so that a pass that started then may still be
\* running a tick later.
StampInit ==
    /\ clock = 0
    /\ assignedTo = [l \in Leads |-> 1]
    /\ callLog = [l \in Leads |-> <<>>]
    /\ tags = [l \in Leads |-> <<>>]
    /\ rows = [l \in Leads |->
                 NewAssignment([id |-> l, assignedTo |-> 1], 0, ExpiresAt(0, 1), "source", 1)]
    /\ sources = [n \in SourceNames |->
                    IF n \in FocusSources THEN [timerMinutes |-> 1, enabled |-> 1]
                    ELSE NoSource]
    /\ seenLeads = [l \in Leads |-> 1]
    /\ det = EmptyBag
    /\ res = EmptyBag
    /\ faults = 0
    /\ callsDown = {}
    /\ tagAttempts = [i \in RowIds |-> 0]
    /\ notifyAttempts = [i \in RowIds |-> 0]
    /\ statusWrites = [i \in RowIds |-> 0]
    /\ proc = StartedProcess
    /\ outbox = {}

StampNext ==
    \/ Resolution
    \/ Tick
    \/ \E l \in Leads : LogCall(l)

StampSpec == StampInit /\ [][StampNext]_vars

\* TimerSpec: the two detection tasks while an administrator registers the
\* source and patches its timer with values the handlers accept although
\* they are not durations of 1 to 120 minutes; no row is resolved.
OutOfRangeTimers == {-5, 121}

TimerNext ==
    \/ Detection
    \/ \E l \in FocusLeads, a \in Agents \cup {NoAgent} : Assign(l, a)
    \/ \E n \in FocusSources, m \in OutOfRangeTimers : PostMonitoredSource(n, m)
    \/ \E n \in FocusSources, m \in OutOfRangeTimers : PatchTimerMinutes(n, m)

TimerSpec == Init /\ [][TimerNext]_vars

\* The leads a detection run still holds from its listing, after the one it
\* is working on, that had no assignee when they were listed.
UnassignedAhead(run) ==
    {run.leads[i].id : i \in {j \in 2..Len(run.leads) : run.leads[j].assignedTo = NoAgent}}

\* C21: a lead a watch target returns without assignee is skipped.  The
\* listing itself changes neither the rows nor seenLeads; no run ever stops
\* at a lead without assignee to look up or insert a row for it; no row has
\* an empty agent; and the steps of a run whose listing still holds leads
\* without assignee insert no row for those leads and leave their seenLeads
\* entries alone, down to the end of the cycle.
C21_UnassignedSkipped ==
    /\ [](/\ \A run \in BagToSet(det) :
               run.pc \in {"findFirst", "insert"} => Head(run.leads).assignedTo # NoAgent
          /\ \A i \in 1..Len(rows) : rows[i].agentId # NoAgent)
    /\ [][\A run \in BagToSet(det) :
            /\ (DetStepped(run, "getPondLeads") \/ DetStepped(run, "getLeadsBySource"))
                   => rows' = rows /\ seenLeads' = seenLeads
            /\ (DetStepped(run, "findFirst") \/ DetStepped(run, "insert"))
                   => \A l \in UnassignedAhead(run) :
                         /\ seenLeads'[l] = seenLeads[l]
                         /\ Len(rows') > Len(rows) => rows'[Len(rows')].fubLeadId # l
                         /\ \A next \in BagToSet(det') :
                               (CopiesIn(next, det') > CopiesIn(next, det)
                                  /\ next.pc \in {"findFirst", "insert"})
                                 => Head(next.leads).id # l]_vars

\* A cycle has inserted a row for the assigned lead of a listing that also
\* held a lead without assignee, and a later cycle is about to insert
\* another one with the lead without assignee still ahead of it: that lead
\* has no row and no seenLeads entry.
C21_Witness ==
    /\ Len(rows) >= 1
    /\ \E run \in BagToSet(det) :
          /\ run.pc = "insert"
          /\ UnassignedAhead(run) # {}
          /\ \A l \in UnassignedAhead(run) :
                /\ seenLeads[l] = NoAgent
                /\ assignedTo[l] = NoAgent
                /\ \A i \in 1..Len(rows) : rows[i].fubLeadId # l

\* C22: an error during a detection cycle ends the cycle.  The step of a
\* run on which an error of the CRM or of the store occurs leaves no
\* continuation of the run: no further lead and no further source is
\* processed by it.
C22_ErrorEndsCycle ==
    [][\A run \in BagToSet(det) :
          (CopiesIn(run, det') < CopiesIn(run, det) /\ faults' > faults)
             => \A next \in BagToSet(det') : CopiesIn(next, det') <= CopiesIn(next, det)]_vars

\* C23: a store error in the middle of a cycle leaves no partial commit.
\* The run of a task on which a store operation fails has written no row
\* to the store in that cycle: whatever it wrote before the error would
\* stay committed, since the cycle is only aborted.
C23_NoPartialCommit ==
    [][/\ \A run \in BagToSet(det) :
            (/\ run.pc \in {"findSources", "findFirst", "insert"}
             /\ CopiesIn(run, det') < CopiesIn(run, det)
             /\ faults' > faults) => run.written = 0
       /\ \A run \in BagToSet(res) :
            (/\ run.pc \in {"findExpired", "updateCalled", "updateReassigned"}
             /\ CopiesIn(run, res') < CopiesIn(run, res)
             /\ faults' > faults) => run.written = 0]_vars

\* C24: the timer duration is bounded.  Whatever the administrators post
\* and patch, every row of monitored_sources has its timerMinutes within
\* 1..120.
C24_TimerMinutesBounded ==
    \A n \in SourceNames :
       sources[n] # NoSource => sources[n].timerMinutes \in 1..120

\* C25: sendTimerExpiredNotification returns normally in every case.  The
\* pass that awaits it always goes on to the update of the same row, with
\* nothing else of it changed and no error counted; without a transport or
\* without recipients no mail is sent; otherwise at most the mail of that
\* row is sent, and a send that fails sends nothing and still returns.
C25_NotificationNeverThrows ==
    [][\A run \in BagToSet(res) :
          (run.pc = "notify" /\ CopiesIn(run, res') < CopiesIn(run, res))
             => LET next == [run EXCEPT !.pc = "updateReassigned"]
                IN  /\ CopiesIn(next, res') = CopiesIn(next, res) + 1
                    /\ BagCardinality(res') = BagCardinality(res)
                    /\ faults' = faults
                    /\ rows' = rows
                    /\ (~proc.resend \/ ~proc.recipients) => outbox' = outbox
                    /\ outbox' \subseteq outbox \cup {Notification(Head(run.expired))}]_vars

\* With the transport and the recipients configured and no error anywhere
\* else: both rows were notified once and both are reassigned; the mail of
\* one was accepted, the send of the other failed.
C25_Witness ==
    /\ proc.resend /\ proc.recipients
    /\ faults = 0
    /\ Len(rows) = 2
    /\ \A i \in 1..Len(rows) : rows[i].status = "reassigned" /\ notifyAttempts[i] = 1
    /\ Cardinality(outbox) = 1

\* How often a tag occurs in the tags of a lead.
Occurrences(array, x) == Cardinality({i \in 1..Len(array) : array[i] = x})

\* C26: addTagToPerson is idempotent.  Applied to a lead that carries the
\* tag, it makes no PUT and leaves the lead's tags as they are; a PUT that
\* succeeds leaves the tag on the lead; however often it is applied, the
\* tag occurs at most once on a lead, and every other tag of the lead stays
\* where it was.
C26_AddTagIdempotent ==
    /\ [](\A l \in Leads : Occurrences(tags[l], REASSIGNED_TAG) <= 1)
    /\ [][/\ \A l \in Leads :
               /\ Len(tags'[l]) >= Len(tags[l])
               /\ \A i \in 1..Len(tags[l]) : tags'[l][i] = tags[l][i]
               /\ \A i \in (Len(tags[l]) + 1)..Len(tags'[l]) : tags'[l][i] = REASSIGNED_TAG
          /\ \A run \in BagToSet(res) :
               /\ (ResStepped(run, "addTagGet")
                     /\ Includes(tags[Head(run.expired).fubLeadId], REASSIGNED_TAG))
                  => /\ tags' = tags
                     /\ \A next \in BagToSet(res') :
                           CopiesIn(next, res') > CopiesIn(next, res) => next.pc = "notify"
               /\ ResStepped(run, "addTagPut")
                  => Includes(tags'[Head(run.expired).fubLeadId], REASSIGNED_TAG)]_vars

\* The tag was applied to the lead of a row by a pass that then failed to
\* update the row; the next pass applied it again and is about to notify:
\* the lead has its earlier tag and the tag once.
C26_Witness ==
    \E i \in 1..Len(rows) :
       /\ tagAttempts[i] = 2
       /\ statusWrites[i] = 0
       /\ faults = 1
       /\ tags[rows[i].fubLeadId] = <<"Buyer", REASSIGNED_TAG>>
       /\ BagCardinality(res) = 1
       /\ \E run \in BagToSet(res) : run.pc = "notify" /\ Head(run.expired).id = i

\* The rows of a lead.
RowsOf(leadId) == {i \in 1..Len(rows) : rows[i].fubLeadId = leadId}

\* The lead's current assignee has been recorded in seenLeads and no row of
\* the lead names that assignee: detection saw the change to this assignee
\* while an earlier assignee's row was pending.
Absorbed(leadId) ==
    /\ assignedTo[leadId] \in Agents
    /\ seenLeads[leadId] = assignedTo[leadId]
    /\ RowsOf(leadId) # {}
    /\ \A i \in RowsOf(leadId) : rows[i].agentId # assignedTo[leadId]

\* C27: a change of assignee seen while a row of the lead is pending is
\* absorbed.  The run that finds the pending row inserts nothing and
\* records the new assignee in seenLeads; from then on, while the assignee
\* stays the same and the process is not restarted, no row naming that
\* assignee is inserted for the lead, whatever becomes of the earlier row.
C27_ChangeAbsorbed ==
    [][/\ \A run \in BagToSet(det) :
            (DetStepped(run, "findFirst") /\ PendingRowsOf(Head(run.leads).id) # {})
               => /\ rows' = rows
                  /\ seenLeads'[Head(run.leads).id] = Head(run.leads).assignedTo
       /\ \A l \in Leads :
            (Absorbed(l) /\ assignedTo'[l] = assignedTo[l] /\ proc' = proc
               /\ Len(rows') > Len(rows))
               => ~(/\ rows'[Len(rows')].fubLeadId = l
                    /\ rows'[Len(rows')].agentId = assignedTo[l])]_vars

\* C28: no re-monitoring of an unchanged assignee.  Within one life of the
\* process, a detection run inserts a row for a lead and an assignee only
\* if seenLeads does not already hold that assignee for the lead, whatever
\* the status of the lead's earlier rows.
C28_NoRemonitoring ==
    [][\A run \in BagToSet(det) :
          DetStepped(run, "insert")
             => seenLeads[Head(run.leads).id] # Head(run.leads).assignedTo]_vars

\* C29: a restart re-opens resolved leads.  The restart empties seenLeads
\* and leaves the rows and the CRM alone; after it, a run that lists a lead
\* that is assigned and not in seenLeads goes on to look for its pending
\* row, although the assignee is the one of the lead's earlier rows; the
\* run that finds all rows of the lead terminal goes on to the insert; and
\* the insert appends a pending row for the lead and its assignee, with
\* assignedAt the time the run took after the restart.
C29_RestartReopens ==
    [][/\ proc'.restarts > proc.restarts
          => /\ seenLeads' = [l \in Leads |-> NoAgent]
             /\ rows' = rows
             /\ assignedTo' = assignedTo
       /\ \A run \in BagToSet(det) :
            proc.restarts > 0 =>
              /\ DetStepped(run, "getPondLeads")
                 => \A l \in Leads :
                      (assignedTo[l] \in Agents /\ seenLeads[l] = NoAgent)
                        => \E next \in BagToSet(det') :
                             /\ CopiesIn(next, det') > CopiesIn(next, det)
                             /\ next.pc = "findFirst"
                             /\ \E k \in 1..Len(next.leads) :
                                   next.leads[k] = [id |-> l, assignedTo |-> assignedTo[l]]
              /\ (DetStepped(run, "findFirst") /\ PendingRowsOf(Head(run.leads).id) = {})
                 => \E next \in BagToSet(det') :
                      /\ CopiesIn(next, det') > CopiesIn(next, det)
                      /\ next.pc = "insert"
                      /\ next.leads = run.leads
                      /\ next.now = clock
              /\ DetStepped(run, "insert")
                 => /\ Len(rows') = Len(rows) + 1
                    /\ rows'[Len(rows')].fubLeadId = Head(run.leads).id
                    /\ rows'[Len(rows')].agentId = Head(run.leads).assignedTo
                    /\ rows'[Len(rows')].status = "pending"
                    /\ rows'[Len(rows')].assignedAt = run.now
                    /\ \A i \in 1..Len(rows) : rows'[i] = rows[i]]_vars

\* After a restart the lead, still with the agent of its first row, has a
\* second row: the first one is terminal, the second one is pending, for
\* the same agent, and was assigned when or after the first was resolved.
C29_Witness ==
    /\ proc.restarts = 1
    /\ Len(rows) = 2
    /\ rows[1].status = "reassigned"
    /\ rows[2].status = "pending"
    /\ rows[2].fubLeadId = rows[1].fubLeadId
    /\ rows[2].agentId = rows[1].agentId
    /\ assignedTo[rows[1].fubLeadId] = rows[1].agentId
    /\ rows[2].assignedAt >= rows[1].reassignedAt
    /\ seenLeads[rows[2].fubLeadId] = rows[2].agentId

\* C30: the escalation of a row without call is ordered.  A pass reaches
\* the notification only from the tag attempt for the same row, and the
\* update to reassigned only from the notification for the same row; so a
\* pass at the notification has a tag attempt behind it, a pass at the
\* update has both attempts behind it, and a reassigned row has had both.
\* A store error at the update leaves the row as it was, pending, for the
\* next pass to take up again.
C30_EscalationOrder ==
    /\ [](/\ \A run \in BagToSet(res) :
               /\ run.pc \in {"addTagGet", "addTagPut", "notify", "updateReassigned"}
                  => tagAttempts[Head(run.expired).id] >= 1
               /\ run.pc \in {"notify", "updateReassigned"}
                  => notifyAttempts[Head(run.expired).id] >= 1
          /\ \A i \in 1..Len(rows) :
               rows[i].status = "reassigned"
                  => tagAttempts[i] >= 1 /\ notifyAttempts[i] >= 1)
    /\ [][/\ \A next \in BagToSet(res') :
               CopiesIn(next, res') > CopiesIn(next, res)
                  => /\ next.pc = "notify"
                        => \E run \in BagToSet(res) :
                              /\ run.pc \in {"addTagGet", "addTagPut"}
                              /\ CopiesIn(run, res') < CopiesIn(run, res)
                              /\ run.expired = next.expired
                     /\ next.pc = "updateReassigned"
                        => \E run \in BagToSet(res) :
                              /\ run.pc = "notify"
                              /\ CopiesIn(run, res') < CopiesIn(run, res)
                              /\ run.expired = next.expired
          /\ \A i \in 1..Len(rows) :
               (rows[i].status # "reassigned" /\ rows'[i].status = "reassigned")
                  => \E run \in BagToSet(res) :
                        /\ ResStepped(run, "updateReassigned")
                        /\ Head(run.expired).id = i
          /\ \A run \in BagToSet(res) :
               (run.pc = "updateReassigned" /\ CopiesIn(run, res') < CopiesIn(run, res)
                  /\ faults' > faults)
                  => /\ rows' = rows
                     /\ rows[Head(run.expired).id].status = "pending"
                           => ExpiredPending(clock) # {}]_vars

\* Two passes made both attempts for a row and one write was executed: the
\* update of one pass failed, the row stayed pending, and the row is now
\* reassigned by the other pass.
C30_Witness ==
    /\ res = EmptyBag
    /\ faults = 1
    /\ \E i \in 1..Len(rows) :
          /\ rows[i].status = "reassigned"
          /\ tagAttempts[i] = 2
          /\ notifyAttempts[i] = 2
          /\ statusWrites[i] = 1
          /\ Includes(tags[rows[i].fubLeadId], REASSIGNED_TAG)

\* C31: a failed call lookup leaves the row untouched.  The step of a pass
\* on which getPersonCalls throws changes no row, leaves the CRM, the mail
\* transport and the counters of tag attempts, notifications and status
\* writes as they are, and ends the pass: nothing of the pass remains that
\* could tag, notify or write for the row.
C31_FailedLookupLeavesRow ==
    [][\A run \in BagToSet(res) :
          (/\ run.pc = "getPersonCalls"
           /\ CopiesIn(run, res') < CopiesIn(run, res)
           /\ faults' > faults)
             => /\ rows' = rows
                /\ NoEscalationEffect
                /\ statusWrites' = statusWrites
                /\ res' = res (-) SetToBag({run})]_vars

\* The only pass so far has ended on a failed call lookup: the rows are
\* past their deadline and pending as inserted, nothing was tagged,
\* notified or written.
C31_Witness ==
    /\ faults = 1
    /\ res = EmptyBag
    /\ \A i \in 1..Len(rows) :
          /\ rows[i].status = "pending"
          /\ rows[i].timerExpiresAt < clock
          /\ rows[i].callDetectedAt = Null /\ rows[i].notifiedAt = Null
          /\ rows[i].reassignedAt = Null
          /\ tagAttempts[i] = 0 /\ notifyAttempts[i] = 0 /\ statusWrites[i] = 0
    /\ \A l \in Leads : ~Includes(tags[l], REASSIGNED_TAG)
    /\ outbox = {}

\* C32: the timestamps of an escalation.  Every reassigned row has
\* notifiedAt = reassignedAt, later than its timerExpiresAt; and the update
\* to reassigned stamps both with the `now` the pass took when it started,
\* whatever the clock says when the update is executed.
C32_EscalationTimestamps ==
    /\ [](\A i \in 1..Len(rows) :
            rows[i].status = "reassigned"
               => /\ rows[i].notifiedAt # Null
                  /\ rows[i].notifiedAt = rows[i].reassignedAt
                  /\ rows[i].reassignedAt > rows[i].timerExpiresAt)
    /\ [][\A run \in BagToSet(res) :
            ResStepped(run, "updateReassigned")
               => /\ rows'[Head(run.expired).id].status = "reassigned"
                  /\ rows'[Head(run.expired).id].notifiedAt = run.now
                  /\ rows'[Head(run.expired).id].reassignedAt = run.now]_vars

\* A pass that started a tick ago has reassigned its first row, stamped
\* with its start time, and is at the update of its second row with the
\* clock ahead of that time.
C32_Witness ==
    \E run \in BagToSet(res) :
       /\ run.pc = "updateReassigned"
       /\ run.now < clock
       /\ run.written = 1
       /\ \E i \in 1..Len(rows) :
             /\ i # Head(run.expired).id
             /\ rows[i].status = "reassigned"
             /\ statusWrites[i] = 1
             /\ rows[i].reassignedAt = run.now
             /\ rows[i].notifiedAt = run.now
             /\ rows[i].timerExpiresAt < run.now

\* C33: every timer is positive and bounded.  For every row, whatever the
\* administrators posted and patched, timerExpiresAt - assignedAt is a
\* duration of 1 to 120 minutes.
C33_TimerPositiveBounded ==
    \A i \in 1..Len(rows) :
       rows[i].timerExpiresAt - rows[i].assignedAt \in 1..120

\* C34: seenLeads is backed by the store.  Every lead that has an entry in
\* seenLeads has at least one row: the entry is set only once a pending
\* row of the lead was found or a row was inserted for it, and no row is
\* ever deleted.
C34_SeenBackedByStore ==
    \A l \in Leads :
       seenLeads[l] # NoAgent => \E i \in 1..Len(rows) : rows[i].fubLeadId = l

\* After a restart and a store error: the lead has one row, naming its
\* first agent, and its seenLeads entry names the agent it has now, set by
\* a run that found the pending row; the lead without assignee has neither
\* an entry nor a row.
C34_Witness ==
    /\ proc.restarts = 1
    /\ faults = 1
    /\ det = EmptyBag
    /\ \E l \in Leads :
          /\ seenLeads[l] \in Agents
          /\ assignedTo[l] = seenLeads[l]
          /\ Cardinality({i \in 1..Len(rows) : rows[i].fubLeadId = l}) = 1
          /\ \A i \in 1..Len(rows) : rows[i].fubLeadId = l => rows[i].agentId # seenLeads[l]
    /\ \E l \in Leads :
          /\ assignedTo[l] = NoAgent
          /\ seenLeads[l] = NoAgent
          /\ \A i \in 1..Len(rows) : rows[i].fubLeadId # l

====
